---- MODULE Spec2Model ----
\* The capture-and-persistence subsystem of the logger: the IndexedDB store
\* (services/indexedDB), the subscription hub and the console interception
\* (services/logger), the manual API of the LoggerProvider (LoggerContext),
\* the error boundary and the useLogHistory hook.
\*
\* One step of the model is one task of the JavaScript event loop together
\* with the microtasks it causes: a call made by the application, or one event
\* of the storage engine (open success/error, request success/error,
\* transaction complete/abort).  Promise continuations run in the step that
\* settles the promise.
EXTENDS Integers, Sequences, FiniteSets, TLC

\* ------------------------------------------------------------------ bounds
MaxCalls == 2       \* store-using calls the application makes in a run of Spec
MaxStoreCalls == 3  \* the same in a run of SpecStore
MaxFail == 1        \* failures of the storage engine in a run
MaxTime == 2        \* distinct readings of Date.now()
MaxInstall == 2     \* calls of initGlobalLogger
MaxListeners == 1   \* observers created in a run

Listeners == 1..MaxListeners
Undefined == "undefined"

\* ------------------------------------------------------------------ values
\* JavaScript values passed as the first argument of a console call.
Str(s) == [t |-> "string", s |-> s, n |-> 0, stack |-> Undefined]
Num(n) == [t |-> "number", s |-> "", n |-> n, stack |-> Undefined]
Err(m, st) == [t |-> "Error", s |-> m, n |-> 0, stack |-> st]
Bool(b) == [t |-> "boolean", s |-> "", n |-> IF b THEN 1 ELSE 0, stack |-> Undefined]
NoArg == [t |-> "undefined", s |-> "", n |-> 0, stack |-> Undefined]

ConsoleValues == {Str("hello")}
ManualValues == {Str("hello")}
ErrorValues == {Err("boom", "at foo()")}
\* First arguments of every kind: a string, a falsy number, a falsy boolean,
\* and Errors with and without a stack.
CaptureValues ==
  {Str("hello"), Num(0), Bool(FALSE), Err("boom", "at foo()"), Err("boom", Undefined)}

\* Number.prototype.toString for the numbers used.
NumberToString(n) == CASE n = 0 -> "0" [] n = 1 -> "1" [] OTHER -> "NaN"
\* Error.prototype.toString: name + ": " + message.
ErrorToString(m) == CASE m = "boom" -> "Error: boom" [] m = "" -> "Error" [] OTHER -> "Error: ?"

String(v) ==
  CASE v.t = "string" -> v.s
    [] v.t = "number" -> NumberToString(v.n)
    [] v.t = "boolean" -> (IF v.n = 1 THEN "true" ELSE "false")
    [] v.t = "Error" -> ErrorToString(v.s)
    [] OTHER -> Undefined

\* args[0] ? ... : ...
Truthy(v) ==
  CASE v.t = "string" -> v.s # ""
    [] v.t = "number" -> v.n # 0
    [] v.t = "boolean" -> v.n = 1
    [] v.t = "Error" -> TRUE
    [] OTHER -> FALSE

Level(ch) == CASE ch = "log" -> "INFO" [] ch = "warn" -> "WARN" [] ch = "error" -> "ERROR"

\* The message and stack a console wrapper derives from its first argument.
WrapperMessage(ch, v) ==
  IF ch = "error"
  THEN (IF v.t = "Error" THEN v.s ELSE String(v))
  ELSE (IF Truthy(v) THEN String(v) ELSE "")

WrapperStack(ch, v) == IF ch = "error" /\ v.t = "Error" THEN v.stack ELSE Undefined

\* F applied to the value x, x computed once.
With(x, F(_)) == CHOOSE r \in {F(y) : y \in {x}} : TRUE

\* ------------------------------------------------------------------ state
VARIABLES
  console,        \* number of wrapper layers on console.log/warn/error
  originalError,  \* layers on the function kept in console._originalError; -1: unset
  dbInstance,     \* TRUE once the connection is kept in dbInstance
  initPromise,    \* "null", "pending", "resolved", "rejected"
  opens,          \* calls of indexedDB.open
  store,          \* committed records of the object store
  keyGen,         \* the object store's key generator (autoIncrement)
  committing,     \* the transaction whose request has ended, before it finishes:
                  \* op "add"/"clear" after a success, "failed" after an error
  txq,            \* transactions created and not yet run, oldest first
  waiting,        \* operations suspended in getDB on initPromise, oldest first
  listeners,      \* the hub's Set of listeners, in insertion order
  status,         \* per observer: "fresh", "subscribed", "unsubscribed"
  got,            \* per observer: <<>> or <<ids of the snapshot last delivered>>
  now,            \* Date.now()
  calls,          \* store-using calls the application has yet to make
  faults,         \* failures the storage engine has yet to produce
  livelock,       \* the microtask queue never drains again
  called,         \* some initialize/insert/scanAll/clear call was made
  ev,             \* what the last step did (see NoEv)
  reentry,        \* a diagnostic of a capture went through an intercepted channel
  late,           \* observers whose callback ran after their unsubscribe
  lastScan,       \* <<>> or <<result of the last scan>>, while the store is unchanged
  issued,         \* ids of the records committed so far
  reissued,       \* a committed insert received an id already in issued
  unhandled,      \* the functions whose rejection reached no handler
  throws,         \* the observers whose callback throws
  seen,           \* per observer: the version of the snapshot last delivered
  version,        \* committed changes of the store so far
  cleared,        \* a clear resolved and no insert was started or in flight since
  engine,         \* "ok", or "broken": every request fails from now on
  subFailed       \* the observers whose initial scan was rejected

vars == <<console, originalError, dbInstance, initPromise, opens, store, keyGen,
          committing, txq, waiting, listeners, status, got, now, calls, faults,
          livelock, called, ev, reentry, late, lastScan, issued, reissued,
          unhandled, throws, seen, version, cleared, engine, subFailed>>

\* What one step did, for the properties that speak about one operation:
\*   act       the action, when it is one of those below
\*   ch,fw,ps  a console call: its channel, the calls of the true original
\*             channel and the saveLog starts it made
\*   ctx       the function whose store operation resolved, was rejected or
\*             whose transaction ended
\*   notified  a mutation resolved: its continuation called notifyListeners
\*   dropped   captured events whose record is not persisted and whose saveLog
\*             ends in this step;  reported: each was reported through
\*             console._originalError
\*   outcome   a write transaction ended: "committed" or "aborted";
\*             result: what its promise had been settled with
\*   id        the key of the add
\*   prev      a scan resolved: the value of lastScan before it
\*   invoked   the observers whose callback was called, in the order of the calls
\*   arg       a console call: its first argument;  fwv: the first arguments the
\*             true original channel was called with;  saved: the entries
\*             saveLog handed to addLogEntry, each with the number of calls of
\*             the true original channel made before
NoEv == [act |-> "none", ch |-> "none", fw |-> 0, ps |-> 0, ctx |-> "none",
         notified |-> FALSE, dropped |-> 0, reported |-> TRUE,
         outcome |-> "none", result |-> "none", id |-> 0, prev |-> <<>>,
         invoked |-> <<>>, arg |-> NoArg, fwv |-> <<>>, saved |-> <<>>,
         refused |-> <<>>]

\* The state as one record, so that a handler is a function from state to state.
\* fw and ps count, within the application's console call, the calls of the
\* true original channel and the wrappers that go on to saveLog.
Cur ==
  [console |-> console, originalError |-> originalError, dbInstance |-> dbInstance,
   initPromise |-> initPromise, opens |-> opens, store |-> store, keyGen |-> keyGen,
   committing |-> committing, txq |-> txq, waiting |-> waiting,
   listeners |-> listeners, status |-> status, got |-> got, now |-> now,
   calls |-> calls, faults |-> faults, livelock |-> livelock, called |-> called,
   ev |-> NoEv, reentry |-> reentry, late |-> late, lastScan |-> lastScan,
   issued |-> issued, reissued |-> reissued, unhandled |-> unhandled,
   throws |-> throws, seen |-> seen, version |-> version,
   cleared |-> cleared, engine |-> engine, subFailed |-> subFailed,
   fw |-> 0, ps |-> 0, fwv |-> <<>>, saved |-> <<>>]

\* An insert has been started and has not ended.
InsertInFlight(S) ==
  \/ \E i \in 1..Len(S.txq) : S.txq[i].op = "add"
  \/ \E i \in 1..Len(S.waiting) : S.waiting[i].op = "add"
  \/ S.committing.op = "add"

\* The readonly transactions that begin in S: the scans that no unfinished
\* write transaction precedes.  Each reads the store as it is when it begins,
\* ver being the version of that snapshot.
beginScans(S) ==
  IF S.committing.op # "none" THEN S.txq
  ELSE [i \in 1..Len(S.txq) |->
          IF S.txq[i].snap = <<>> /\ \A k \in 1..i : S.txq[k].op = "scan"
          THEN [S.txq[i] EXCEPT !.snap = <<S.store>>, !.ver = S.version]
          ELSE S.txq[i]]

\* The state S is computed once and assigned to the variables; a step whose
\* budget of calls or failures is used up is not taken.
Set(S) ==
  \E T \in {S} :
    /\ T.calls >= 0
    /\ T.faults >= 0
    /\ console' = T.console
    /\ originalError' = T.originalError
    /\ dbInstance' = T.dbInstance
    /\ initPromise' = T.initPromise
    /\ opens' = T.opens
    /\ store' = T.store
    /\ keyGen' = T.keyGen
    /\ committing' = T.committing
    /\ txq' = beginScans(T)
    /\ waiting' = T.waiting
    /\ listeners' = T.listeners
    /\ status' = T.status
    /\ got' = T.got
    /\ now' = T.now
    /\ calls' = T.calls
    /\ faults' = T.faults
    /\ livelock' = T.livelock
    /\ called' = T.called
    /\ ev' = T.ev
    /\ reentry' = T.reentry
    /\ late' = T.late
    /\ lastScan' = T.lastScan
    /\ issued' = T.issued
    /\ reissued' = T.reissued
    /\ unhandled' = T.unhandled
    /\ throws' = T.throws
    /\ seen' = T.seen
    /\ version' = T.version
    /\ cleared' = (T.cleared /\ ~InsertInFlight(T))
    /\ engine' = T.engine
    /\ subFailed' = T.subFailed

NoEntry == [timestamp |-> 0, level |-> "NONE", message |-> "", stackTrace |-> Undefined]
NoTx == [op |-> "none", ctx |-> "none", id |-> 0, entry |-> NoEntry]

\* The producers whose events are captured rather than logged by a manual call.
CaptureRoots == {"console", "boundary"}

\* One started store operation: op is what it does ("add", "scan", "clear",
\* "init"), ctx the function that awaits it, lst the observer of a subscribe
\* scan, root the producer the chain of calls began with, snap and ver what a
\* scan reads once its transaction has begun.
Job(op, ctx, entry, lst, root) ==
  [op |-> op, ctx |-> ctx, entry |-> entry, lst |-> lst, root |-> root,
   snap |-> <<>>, ver |-> 0]

\* The module state of services/indexedDB and services/logger when loaded,
\* obs being the observers that will exist.
Loaded(obs) ==
  /\ dbInstance = FALSE
  /\ initPromise = "null"
  /\ opens = 0
  /\ store = {}
  /\ keyGen = 1
  /\ committing = NoTx
  /\ txq = <<>>
  /\ waiting = <<>>
  /\ listeners = <<>>
  /\ status = [l \in obs |-> "fresh"]
  /\ got = [l \in obs |-> <<>>]
  /\ now = 1
  /\ livelock = FALSE
  /\ called = FALSE
  /\ ev = NoEv
  /\ reentry = FALSE
  /\ late = {}
  /\ lastScan = <<>>
  /\ issued = {}
  /\ reissued = FALSE
  /\ unhandled = {}
  /\ throws = {}
  /\ seen = [l \in obs |-> 0]
  /\ version = 0
  /\ cleared = FALSE
  /\ engine = "ok"
  /\ subFailed = {}

\* Before index.tsx has called initGlobalLogger.
Start == console = 0 /\ originalError = -1 /\ Loaded(Listeners)

\* After index.tsx has called initGlobalLogger, once.
Installed == console = 1 /\ originalError = 0 /\ Loaded(Listeners)

\* ------------------------------------------------------- services/indexedDB
\* initDB without the test of initPromise: every call made before the
\* connection exists opens the database again.
initDBNoPromiseTest(S) ==
  IF S.dbInstance THEN S
  ELSE [S EXCEPT !.initPromise = "pending", !.opens = @ + 1]

\* An initDB that opens again after a failed open.
initDBRetryAfterFailure(S) ==
  IF S.dbInstance THEN S
  ELSE IF S.initPromise \in {"pending", "resolved"} THEN S
  ELSE [S EXCEPT !.initPromise = "pending", !.opens = @ + 1]

\* initDB: nothing to do with a connection, the pending promise when an open is
\* in flight (or has ended), otherwise indexedDB.open is called.
initDB(S) ==
  IF S.dbInstance THEN S
  ELSE IF S.initPromise # "null" THEN S
  ELSE [S EXCEPT !.initPromise = "pending", !.opens = @ + 1]

RECURSIVE getDB(_, _), Reject(_, _), CallChannel(_, _, _, _, _, _), saveLog(_, _, _, _, _)

\* getDB, and what its caller does with the outcome: with a connection the
\* caller creates its transaction, with an open in flight it is suspended on
\* initPromise, with a rejected initPromise its own promise is rejected.
getDB(S, j) ==
  With([(IF S.dbInstance THEN S ELSE initDB(S)) EXCEPT !.called = TRUE],
       LAMBDA S1 :
         IF S1.dbInstance THEN [S1 EXCEPT !.txq = Append(@, j)]
         ELSE IF S1.initPromise = "pending" THEN [S1 EXCEPT !.waiting = Append(@, j)]
         ELSE Reject([S1 EXCEPT !.ev.refused = Append(@, j.op)], j))

\* ---------------------------------------------------------- services/logger
\* A wrapper that calls saveLog before the function it wrapped.
CallChannelSaveFirst(St, ch, k, v, root, diag) ==
  With(St, LAMBDA S :
    IF k = 0 THEN [S EXCEPT !.fw = IF diag THEN @ ELSE @ + 1,
                            !.fwv = IF diag THEN @ ELSE Append(@, v)]
    ELSE LET S0 == [S EXCEPT !.reentry = @ \/ (diag /\ root \in CaptureRoots),
                             !.ps = IF diag THEN @ ELSE @ + 1]
             S1 == saveLog(S0, Level(ch), WrapperMessage(ch, v), WrapperStack(ch, v), root)
         IN CallChannel(S1, ch, k - 1, v, root, diag))

\* Calling the function that has k wrapper layers: layer 0 is the browser's
\* own channel; a wrapper first calls the function it wrapped, then saveLog.
\* diag: the call is a diagnostic message of the program itself.
CallChannel(St, ch, k, v, root, diag) ==
  With(St, LAMBDA S :
    IF k = 0 THEN [S EXCEPT !.fw = IF diag THEN @ ELSE @ + 1,
                            !.fwv = IF diag THEN @ ELSE Append(@, v)]
    ELSE LET S0 == [S EXCEPT !.reentry = @ \/ (diag /\ root \in CaptureRoots),
                             !.ps = IF diag THEN @ ELSE @ + 1]
             S1 == CallChannel(S0, ch, k - 1, v, root, diag)
         IN saveLog(S1, Level(ch), WrapperMessage(ch, v), WrapperStack(ch, v), root))

\* saveLog up to its await: the entry is stamped and addLogEntry is called.
saveLog(S, level, message, stackTrace, root) ==
  LET entry == [timestamp |-> S.now, level |-> level, message |-> message,
                stackTrace |-> stackTrace]
  IN getDB([S EXCEPT !.saved = Append(@, [entry |-> entry, after |-> S.fw])],
           Job("add", "saveLog", entry, 0, root))

\* The continuation of the function awaiting job j when j's promise rejects.
Reject(St, j) ==
  With(St, LAMBDA S :
    CASE j.ctx = "saveLog" ->
           \* catch: console._originalError('Failed to save log to DB', error)
           LET S1 == [S EXCEPT !.ev.dropped = @ + 1,
                               !.ev.reported = @ /\ S.originalError >= 0]
           IN IF S.originalError < 0 THEN S1
              ELSE IF S.originalError > 0 /\ ~S.dbInstance /\ S.initPromise = "rejected"
                   \* _originalError is a wrapper: it starts a saveLog that is
                   \* rejected in turn, reports through the same wrapper, and so on
                   THEN [S1 EXCEPT !.livelock = TRUE, !.reentry = @ \/ (j.root \in CaptureRoots)]
                   ELSE CallChannel(S1, "error", S.originalError,
                                    Str("Failed to save log to DB"), j.root, TRUE)
      [] j.ctx = "persistLog" ->
           CallChannel(S, "error", S.console,
                       Str("CRITICAL: Failed to persist log to IndexedDB"), j.root, TRUE)
      [] j.ctx = "notifyListeners" ->
           CallChannel(S, "warn", S.console, Str("Failed to notify listeners"), j.root, TRUE)
      [] j.ctx \in {"refreshLogs", "persistLog.refreshLogs", "clearLogs.refreshLogs"} ->
           CallChannel(S, "error", S.console, Str("Failed to fetch logs:"), j.root, TRUE)
      [] j.ctx = "clearLogs" ->
           CallChannel(S, "error", S.console, Str("Failed to clear logs:"), j.root, TRUE)
      [] j.ctx = "init" ->
           CallChannel(S, "error", S.console, Str("Failed to initialize Logger DB:"), j.root, TRUE)
      [] OTHER ->
           \* Logger.clear, Logger.getHistory, getAllLogs().then(listener): no handler
           [S EXCEPT !.unhandled = @ \cup {j.ctx},
                     !.subFailed = IF j.ctx = "subscribe" THEN @ \cup {j.lst} ELSE @])

RECURSIVE RejectAll(_, _)
RejectAll(S, js) == IF js = <<>> THEN S ELSE RejectAll(Reject(S, Head(js)), Tail(js))

\* notifyListeners up to its await of getAllLogs().
notifyListeners(S, root) ==
  getDB(S, Job("scan", "notifyListeners", NoEntry, 0, root))

\* ------------------------------------------------------------ LoggerContext
\* refreshLogs up to its await of getAllLogs(), awaited by persistLog, by
\* clearLogs or by the mount effect.
refreshLogs(S, ctx, root) ==
  getDB(S, Job("scan", ctx, NoEntry, 0, root))

\* persistLog up to its await of addLogEntry(entry).
persistLog(S, level, message, stackTrace) ==
  LET entry == [timestamp |-> S.now, level |-> level, message |-> message,
                stackTrace |-> stackTrace]
  IN getDB(S, Job("add", "persistLog", entry, 0, "manual"))

\* ------------------------------------------------------------------ cursor
\* index.openCursor(null, 'prev'): the records by descending index key
\* (timestamp), records of one timestamp by descending primary key.
IndexLast(recs) ==
  CHOOSE r \in recs : \A q \in recs :
    q.timestamp < r.timestamp \/ (q.timestamp = r.timestamp /\ q.id <= r.id)

RECURSIVE CursorPrev(_)
CursorPrev(recs) ==
  IF recs = {} THEN <<>>
  ELSE With(IndexLast(recs), LAMBDA r : <<r>> \o CursorPrev(recs \ {r}))

\* The cursor opened in direction 'next': ascending index key, then
\* ascending primary key.
IndexFirst(recs) ==
  CHOOSE r \in recs : \A q \in recs :
    q.timestamp > r.timestamp \/ (q.timestamp = r.timestamp /\ q.id >= r.id)

RECURSIVE CursorNext(_)
CursorNext(recs) ==
  IF recs = {} THEN <<>>
  ELSE With(IndexFirst(recs), LAMBDA r : <<r>> \o CursorNext(recs \ {r}))

\* The sequence getAllLogs resolves with: the cursor walked to its end.
getAllLogs(recs) == With(recs, LAMBDA rs : CursorPrev(rs))

\* A key taken from the records present (largest id + 1) instead of the
\* object store's key generator.
RECURSIVE MaxId(_)
MaxId(recs) ==
  IF recs = {} THEN 0
  ELSE LET r == CHOOSE r \in recs : TRUE
           m == MaxId(recs \ {r})
       IN IF r.id > m THEN r.id ELSE m

keyAboveRecords(S) == MaxId(S.store) + 1

\* createObjectStore(..., {autoIncrement: true}): store.add(entry) is given the
\* current number of the object store's key generator.
generatedKey(S) == S.keyGen

\* store.clear() that also resets the key generator, as deleting and
\* recreating the object store would.
clearResettingKeys(S) == [S EXCEPT !.store = {}, !.keyGen = 1]

\* store.clear() of clearAllLogs, at commit: every record is removed; the key
\* generator is not touched.
clearAllLogs(S) == [S EXCEPT !.store = {}]

Ids(logs) == [i \in 1..Len(logs) |-> logs[i].id]

Range(q) == {q[i] : i \in 1..Len(q)}

\* Set.prototype.add and Set.prototype.delete on a Set kept in insertion order.
SetAdd(q, x) == IF x \in Range(q) THEN q ELSE Append(q, x)
SetDelete(q, x) == SelectSeq(q, LAMBDA y : y # x)

\* listeners.forEach((listener) => listener(logs)): the listeners called, in
\* insertion order; an exception thrown by a callback ends the forEach.
forEachCalled(S) ==
  LET ls == S.listeners
      bad == {i \in 1..Len(ls) : ls[i] \in S.throws}
  IN IF bad = {} THEN ls
     ELSE SubSeq(ls, 1, CHOOSE i \in bad : \A k \in bad : i <= k)

\* A continuation that called notifyListeners left its scan at the end of txq.
CalledNotify(S, S1) ==
  /\ Len(S1.txq) = Len(S.txq) + 1
  /\ S1.txq[Len(S1.txq)].ctx = "notifyListeners"

\* The continuation of the function awaiting job j when j's promise resolves
\* (res: the scanned sequence of a scan).
Resolve(St, j, res) ==
  With(St, LAMBDA S :
    CASE j.ctx \in {"saveLog", "Logger.clear"} ->
           LET S1 == notifyListeners(S, j.root)
           IN [S1 EXCEPT !.ev.ctx = j.ctx, !.ev.notified = CalledNotify(S, S1)]
      [] j.ctx = "persistLog" ->
           LET S1 == refreshLogs(S, "persistLog.refreshLogs", j.root)
           IN [S1 EXCEPT !.ev.ctx = j.ctx, !.ev.notified = CalledNotify(S, S1)]
      [] j.ctx = "clearLogs" ->
           LET S1 == refreshLogs(S, "clearLogs.refreshLogs", j.root)
           IN [S1 EXCEPT !.ev.ctx = j.ctx, !.ev.notified = CalledNotify(S, S1)]
      [] j.ctx = "init" -> refreshLogs(S, "refreshLogs", j.root)
      [] j.ctx = "notifyListeners" ->
           \* listeners.forEach((listener) => listener(logs)); the exception of a
           \* callback is caught by notifyListeners
           With(forEachCalled(S), LAMBDA cs :
             LET S1 == [S EXCEPT !.got = [l \in DOMAIN @ |->
                                           IF l \in Range(cs) THEN <<Ids(res)>> ELSE @[l]],
                                 !.seen = [l \in DOMAIN @ |->
                                            IF l \in Range(cs) THEN j.ver ELSE @[l]],
                                 !.ev.invoked = cs,
                                 !.late = @ \cup {l \in Range(cs) :
                                                    S.status[l] = "unsubscribed"}]
             IN IF cs # <<>> /\ cs[Len(cs)] \in S.throws THEN Reject(S1, j) ELSE S1)
      [] j.ctx = "subscribe" ->
           \* getAllLogs().then(listener); nothing handles the exception of the
           \* callback
           [S EXCEPT !.got[j.lst] = <<Ids(res)>>,
                     !.seen[j.lst] = j.ver,
                     !.ev.invoked = <<j.lst>>,
                     !.late = @ \cup (IF S.status[j.lst] = "unsubscribed" THEN {j.lst} ELSE {}),
                     !.unhandled = IF j.lst \in S.throws THEN @ \cup {j.ctx} ELSE @]
      \* refreshLogs: setLogs(fetchedLogs); Logger.getHistory: the caller
      [] OTHER -> S)

\* The jobs suspended on initPromise continue in the order they were suspended.
RECURSIVE ResumeAll(_, _)
ResumeAll(S, js) ==
  IF js = <<>> THEN S
  ELSE LET j == Head(js)
       IN ResumeAll(IF j.op = "init" THEN Resolve(S, j, <<>>)
                    ELSE [S EXCEPT !.txq = Append(@, j)], Tail(js))

\* ------------------------------------------------------- application calls
\* initGlobalLogger: the current console functions are kept as the originals
\* and wrapped.
initGlobalLogger(S) ==
  [S EXCEPT !.originalError = S.console, !.console = @ + 1]

InitGlobalLogger ==
  /\ ~livelock
  /\ console < MaxInstall
  /\ Set(initGlobalLogger(Cur))

\* A call of the application that uses the store.
Call == [Cur EXCEPT !.calls = @ - 1]

\* console.log / console.warn / console.error called by the application
\* while the interception is installed.
ConsoleCall(ch, v) ==
  /\ ~livelock
  /\ console >= 1
  /\ \E S1 \in {CallChannel(Call, ch, console, v, "console", FALSE)} :
       Set([S1 EXCEPT !.ev.act = "console", !.ev.ch = ch,
                      !.ev.fw = S1.fw, !.ev.ps = S1.ps,
                      !.ev.arg = v, !.ev.fwv = S1.fwv, !.ev.saved = S1.saved])

\* ErrorBoundary.componentDidCatch: console.error('Uncaught Exception in Component', {...})
ComponentDidCatch ==
  /\ ~livelock
  /\ console >= 1
  /\ \E S1 \in {CallChannel(Call, "error", console,
                              Str("Uncaught Exception in Component"), "boundary", FALSE)} :
       Set([S1 EXCEPT !.ev.act = "console", !.ev.ch = "error",
                      !.ev.fw = S1.fw, !.ev.ps = S1.ps,
                      !.ev.arg = Str("Uncaught Exception in Component"),
                      !.ev.fwv = S1.fwv, !.ev.saved = S1.saved])

\* logInfo / logWarn of the LoggerProvider.
LogManual(level, v) ==
  /\ ~livelock
  /\ Set(persistLog(Call, level, v.s, Undefined))

\* logError of the LoggerProvider.
LogError(v) ==
  /\ ~livelock
  /\ Set(persistLog(Call, "ERROR", v.s, IF v.t = "Error" THEN v.stack ELSE Undefined))

\* clearLogs of the LoggerProvider, up to its await of clearAllLogs().
ClearLogs ==
  /\ ~livelock
  /\ Set(getDB(Call, Job("clear", "clearLogs", NoEntry, 0, "manual")))

\* Logger.clear, up to its await of clearAllLogs().
LoggerClear ==
  /\ ~livelock
  /\ Set(getDB(Call, Job("clear", "Logger.clear", NoEntry, 0, "hub")))

\* Logger.getHistory: a scanAll by the application.
GetHistory ==
  /\ ~livelock
  /\ Set(getDB(Call, Job("scan", "getHistory", NoEntry, 0, "hub")))

\* A subscribe that only registers the listener, without
\* getAllLogs().then(listener).
subscribeWithoutScan(S, l) ==
  [S EXCEPT !.listeners = SetAdd(@, l), !.status[l] = "subscribed"]

\* Logger.subscribe: listeners.add(listener); getAllLogs().then(listener).
subscribe(S, l) ==
  getDB([S EXCEPT !.listeners = SetAdd(@, l), !.status[l] = "subscribed"],
        Job("scan", "subscribe", NoEntry, l, "hub"))

\* Logger.subscribe with a new listener (the effect of useLogHistory).
Subscribe(l) ==
  /\ ~livelock
  /\ status[l] = "fresh"
  /\ Set(subscribe(Call, l))

\* The unsubscribe handle (the effect's cleanup).
Unsubscribe(l) ==
  /\ ~livelock
  /\ status[l] = "subscribed"
  /\ Set([Cur EXCEPT !.listeners = SetDelete(@, l), !.status[l] = "unsubscribed"])

\* Logger.subscribe with a new listener whose callback throws when called.
SubscribeThrowing(l) ==
  /\ ~livelock
  /\ status[l] = "fresh"
  /\ Set(subscribe([Call EXCEPT !.throws = @ \cup {l}], l))

\* Logger.internalError(msg, stack): saveLog at level ERROR, without the console.
InternalError(v) ==
  /\ ~livelock
  /\ Set(saveLog(Call, "ERROR", v.s, v.stack, "hub"))

\* The LoggerProvider's mount effect: await initDB(); await refreshLogs().
Initialize ==
  /\ ~livelock
  /\ LET j == Job("init", "init", NoEntry, 0, "mount")
         S1 == [initDB(Call) EXCEPT !.called = TRUE]
     IN Set(IF S1.dbInstance THEN Resolve(S1, j, <<>>)
            ELSE IF S1.initPromise = "pending" THEN [S1 EXCEPT !.waiting = Append(@, j)]
            ELSE Reject([S1 EXCEPT !.ev.refused = Append(@, j.op)], j))

\* Time passes.
Tick ==
  /\ ~livelock
  /\ now < MaxTime
  /\ Set([Cur EXCEPT !.now = @ + 1])

\* ------------------------------------------------ events of the storage engine
\* A failure of the storage engine.
Fail == [Cur EXCEPT !.faults = @ - 1]

\* The failure of a request: one more failure, or the broken engine's.
RequestFails == IF engine = "broken" THEN Cur ELSE Fail

\* The storage engine breaks (the disk fails, the quota is used up): every
\* request fails from now on.
EngineBreaks ==
  /\ ~livelock
  /\ engine = "ok"
  /\ dbInstance
  /\ Set([Fail EXCEPT !.engine = "broken"])

\* request.onsuccess of indexedDB.open (the object store exists after
\* onupgradeneeded): the connection is kept and the suspended jobs continue.
OpenSuccess ==
  /\ ~livelock
  /\ initPromise = "pending"
  /\ Set(ResumeAll([Cur EXCEPT !.dbInstance = TRUE, !.initPromise = "resolved",
                               !.waiting = <<>>], waiting))

\* request.onerror of indexedDB.open: console.error('IndexedDB error:', event),
\* then reject; every suspended job is rejected.
OpenError ==
  /\ ~livelock
  /\ initPromise = "pending"
  /\ LET S1 == CallChannel(Fail, "error", console, Str("IndexedDB error:"),
                           Head(waiting).root, TRUE)
     IN \E S2 \in {S1} :
          Set(RejectAll([S2 EXCEPT !.initPromise = "rejected", !.waiting = <<>>,
                                   !.ev.act = "openError"],
                        S2.waiting))

Remove(q, i) == SubSeq(q, 1, i - 1) \o SubSeq(q, i + 1, Len(q))

\* A write transaction that does not wait for the readonly transactions
\* created before it.
canStartNoIsolation(S, i) ==
  /\ S.committing.op = "none"
  /\ \A k \in 1..(i - 1) : S.txq[k].op = "scan"

\* The transaction of job i of the queue may run: every transaction created
\* before it has finished, or it is readonly and so are all the unfinished
\* ones before it (readonly transactions run concurrently, a readwrite one
\* waits for every earlier transaction of the store).
canStart(S, i) ==
  /\ S.committing.op = "none"
  /\ \/ i = 1
     \/ \A k \in 1..i : S.txq[k].op = "scan"

\* The request of a transaction that runs succeeds.  An add is given the next
\* key and a clear empties the store, both inside the transaction; a scan has
\* walked the cursor to its end over what it read.  The promise resolves here.
RequestSuccess ==
  /\ ~livelock
  /\ engine = "ok"
  /\ \E i \in 1..Len(txq) :
     /\ canStart(Cur, i)
     /\ LET j == txq[i]
            S0 == [Cur EXCEPT !.txq = Remove(@, i), !.ev.act = j.op, !.ev.ctx = j.ctx]
        IN CASE j.op = "add" ->
               Set(Resolve([S0 EXCEPT !.keyGen = generatedKey(S0) + 1,
                                      !.committing = [op |-> "add", ctx |-> j.ctx,
                                                      id |-> generatedKey(S0),
                                                      entry |-> j.entry],
                                      !.ev.id = generatedKey(S0)],
                           j, <<>>))
          [] j.op = "clear" ->
               Set(Resolve([S0 EXCEPT !.committing = [op |-> "clear", ctx |-> j.ctx,
                                                      id |-> 0, entry |-> NoEntry],
                                      !.cleared = TRUE],
                           j, <<>>))
          [] j.op = "scan" ->
               \E res \in {getAllLogs(j.snap[1])} :
                 Set(Resolve([S0 EXCEPT !.lastScan = <<res>>, !.ev.prev = S0.lastScan],
                             j, res))

\* The request of the oldest transaction fails: request.onerror rejects and
\* the error event bubbles to dbInstance.onerror (console.error('Database
\* error:')); the transaction will abort.
RequestError ==
  /\ ~livelock
  /\ \E i \in 1..Len(txq) :
     /\ canStart(Cur, i)
     /\ LET j == txq[i]
        IN \E S1 \in {Reject([RequestFails EXCEPT
                                !.txq = Remove(@, i), !.ev.act = "requestError",
                                !.ev.ctx = j.ctx,
                                !.committing = [op |-> "failed", ctx |-> j.ctx,
                                                id |-> 0, entry |-> NoEntry]], j)} :
             Set([CallChannel(S1, "error", S1.console, Str("Database error:"),
                              j.root, TRUE)
                    EXCEPT !.ev.result = "rejected"])

\* The write transaction commits.
TxComplete ==
  /\ ~livelock
  /\ committing.op \in {"add", "clear"}
  /\ LET c == committing
         S1 == [Cur EXCEPT !.committing = NoTx, !.lastScan = <<>>,
                           !.version = IF c.op = "add" \/ store # {} THEN @ + 1 ELSE @,
                           !.ev.act = "txEnd", !.ev.ctx = c.ctx, !.ev.id = c.id,
                           !.ev.result = "resolved", !.ev.outcome = "committed"]
     IN IF c.op = "add"
        THEN Set([S1 EXCEPT !.store = @ \cup {[id |-> c.id,
                                             timestamp |-> c.entry.timestamp,
                                             level |-> c.entry.level,
                                             message |-> c.entry.message,
                                             stackTrace |-> c.entry.stackTrace]},
                            !.issued = @ \cup {c.id},
                            !.reissued = @ \/ (c.id \in S1.issued)])
        ELSE Set(clearAllLogs(S1))

\* The transaction aborts: after the error of its request, or at commit
\* after its request succeeded; then its changes are reverted, the key
\* generator included.  No handler of the program listens to the transaction.
TxAbort ==
  /\ ~livelock
  /\ committing # NoTx
  /\ LET c == committing
         S1 == [Fail EXCEPT !.committing = NoTx,
                            !.keyGen = IF c.op = "add" THEN c.id ELSE @,
                            !.ev.act = "txEnd", !.ev.ctx = c.ctx, !.ev.id = c.id,
                            !.ev.result = "resolved", !.ev.outcome = "aborted"]
     IN IF c.op = "failed"
        THEN Set([Cur EXCEPT !.committing = NoTx,
                             !.ev.act = "txEnd", !.ev.ctx = c.ctx,
                             !.ev.result = "rejected", !.ev.outcome = "aborted"])
        ELSE Set(IF c.ctx = "saveLog"
                 THEN [S1 EXCEPT !.ev.dropped = @ + 1, !.ev.reported = FALSE]
                 ELSE S1)

\* The passing of time is part of SpecStore, where the order of a scan is
\* checked.
Next ==
  \/ InitGlobalLogger
  \/ \E ch \in {"log", "warn", "error"}, v \in ConsoleValues : ConsoleCall(ch, v)
  \/ ComponentDidCatch
  \/ \E level \in {"INFO", "WARN"}, v \in ManualValues : LogManual(level, v)
  \/ \E v \in ErrorValues : LogError(v)
  \/ ClearLogs
  \/ LoggerClear
  \/ GetHistory
  \/ \E l \in Listeners : Subscribe(l)
  \/ \E l \in Listeners : Unsubscribe(l)
  \/ Initialize
  \/ OpenSuccess
  \/ OpenError
  \/ RequestSuccess
  \/ RequestError
  \/ TxComplete
  \/ TxAbort

Init == Start /\ calls = MaxCalls /\ faults = MaxFail

Spec == Init /\ [][Next]_vars

\* The store used through the LoggerProvider, Logger.clear and
\* Logger.getHistory alone: no interception is installed.  The level of a
\* record is data the store does not look at: logInfo stands for logWarn and
\* logError.
StoreInit == Start /\ calls = MaxStoreCalls /\ faults = MaxFail

StoreNext ==
  \/ \E v \in ManualValues : LogManual("INFO", v)
  \/ ClearLogs
  \/ LoggerClear
  \/ GetHistory
  \/ Initialize
  \/ Tick
  \/ OpenSuccess
  \/ OpenError
  \/ RequestSuccess
  \/ RequestError
  \/ TxComplete
  \/ TxAbort

SpecStore == StoreInit /\ [][StoreNext]_vars

\* The hub used through Logger alone (subscribe, internalError, clear), with
\* several observers, some of whose callbacks throw; no interception.
MaxHubCalls == 3
MaxObservers == 2

Observers == 1..MaxObservers

HubInit ==
  /\ console = 0 /\ originalError = -1 /\ Loaded(Observers)
  /\ calls = MaxHubCalls /\ faults = MaxFail

HubNext ==
  \/ \E v \in ErrorValues : InternalError(v)
  \/ LoggerClear
  \/ \E l \in Observers : Subscribe(l)
  \/ \E l \in Observers : SubscribeThrowing(l)
  \/ \E l \in Observers : Unsubscribe(l)
  \/ OpenSuccess
  \/ OpenError
  \/ RequestSuccess
  \/ RequestError
  \/ TxComplete
  \/ TxAbort

SpecHub == HubInit /\ [][HubNext]_vars

\* The hub's producers and the subscribe scans of well-behaved observers, as
\* many calls as make scans and mutations overlap.
MaxScanCalls == 4

ScanInit ==
  /\ console = 0
  /\ originalError = -1
  /\ Loaded(Listeners)
  /\ calls = MaxScanCalls
  /\ faults = MaxFail

ScanNext ==
  \/ \E v \in ErrorValues : InternalError(v)
  \/ LoggerClear
  \/ \E l \in Listeners : Subscribe(l)
  \/ OpenSuccess
  \/ OpenError
  \/ RequestSuccess
  \/ RequestError
  \/ TxComplete
  \/ TxAbort

SpecScan == ScanInit /\ [][ScanNext]_vars

\* The console interception alone, called with first arguments of every kind.
\* The storage engine does not fail here.
MaxCaptureCalls == 1

CaptureInit == Start /\ calls = MaxCaptureCalls /\ faults = MaxFail

CaptureNext ==
  \/ InitGlobalLogger
  \/ \E ch \in {"log", "warn", "error"}, v \in CaptureValues : ConsoleCall(ch, v)
  \/ OpenSuccess
  \/ RequestSuccess
  \/ TxComplete

SpecCapture == CaptureInit /\ [][CaptureNext]_vars

\* The interception installed and the hub, with a storage engine that answers
\* every request and an event loop that runs every task: the application may
\* stop calling at any time, an event that can fire does fire.
MaxLiveCalls == 2

LiveInit == Installed /\ calls = MaxLiveCalls /\ faults = MaxFail

LiveNext ==
  \/ \E v \in ConsoleValues : ConsoleCall("log", v)
  \/ \E l \in Listeners : Subscribe(l)
  \/ \E l \in Listeners : Unsubscribe(l)
  \/ OpenSuccess
  \/ OpenError
  \/ RequestSuccess
  \/ RequestError
  \/ TxComplete
  \/ TxAbort
  \/ EngineBreaks

SpecLive ==
  /\ LiveInit
  /\ [][LiveNext]_vars
  /\ WF_vars(OpenSuccess \/ OpenError)
  /\ WF_vars(RequestSuccess \/ RequestError)
  /\ WF_vars(TxComplete \/ TxAbort)
\* ================================================================== claims
HasJob(ctxs) ==
  \/ \E i \in 1..Len(txq) : txq[i].ctx \in ctxs
  \/ \E i \in 1..Len(waiting) : waiting[i].ctx \in ctxs

\* C1: in every interleaving of initialize, insert, scanAll and clear calls,
\* also of calls made before the open has completed, indexedDB.open is called
\* at most once, and exactly once when at least one call was made.
C1_OpenOnce ==
  /\ opens <= 1
  /\ called => opens = 1
  /\ ~called => opens = 0

\* C1 witness: three calls are suspended on the one open that is in flight.
C1_Witness == initPromise = "pending" /\ Len(waiting) >= 3 /\ opens = 1

\* C2: no observer's callback runs after its unsubscribe handle was invoked,
\* whichever delivery it is.
C2_NoCallAfterUnsubscribe == late = {}

\* C3: every mutation whose result resolves is followed by notifyListeners,
\* whichever producer made it.
C3_MutationNotifies == ev.act \in {"add", "clear"} => ev.notified

\* C4: while handling a captured event, no diagnostic message of the program
\* is written through an intercepted console channel.
C4_DiagnosticsBypassWrappers == ~reentry

\* C5: after any number of installations a console call reaches the true
\* original channel once and starts one saveLog, and console._originalError
\* is the true original.
C5_InstallIdempotent ==
  /\ ev.act = "console" => ev.fw = 1 /\ ev.ps = 1
  /\ console >= 1 => originalError = 0

\* C6: when the record of a captured event is not persisted, nothing escapes
\* saveLog, the failure is reported through console._originalError and the
\* store holds no record of the event.
C6_CaptureFailureContained ==
  /\ "saveLog" \notin unhandled
  /\ ev.dropped > 0 => ev.reported

\* C7: no write path keeps its caller waiting for the re-read once the
\* mutation has persisted.
C7_SettledAtPersist ==
  ~HasJob({"persistLog.refreshLogs", "clearLogs.refreshLogs"})

\* C8: a write transaction that aborts has its operation rejected.
C8_AbortRejects == ev.outcome = "aborted" => ev.result = "rejected"

Sorted(logs) ==
  \A i, k \in 1..Len(logs) : i < k =>
    \/ logs[i].timestamp > logs[k].timestamp
    \/ logs[i].timestamp = logs[k].timestamp /\ logs[i].id > logs[k].id

\* C9: a scan returns exactly the records of the store by descending
\* timestamp, and a second scan of the unchanged store returns the same
\* sequence, records of equal timestamp in the same order.
C9_ScanOrdered ==
  lastScan # <<>> =>
    /\ {lastScan[1][i] : i \in 1..Len(lastScan[1])} = store
    /\ Len(lastScan[1]) = Cardinality(store)
    /\ Sorted(lastScan[1])
    /\ ev.act = "scan" /\ ev.prev # <<>> => ev.prev = lastScan

\* C9 witness: a scan of three records, two of them of one timestamp, made
\* after an earlier scan of the same store.
C9_Witness ==
  /\ ev.act = "scan" /\ ev.prev # <<>>
  /\ Len(lastScan[1]) = 3
  /\ lastScan[1][1].timestamp = lastScan[1][2].timestamp
  /\ lastScan[1][2].timestamp > lastScan[1][3].timestamp

C11_IdsMonotone ==
  ev.act = "add" =>
    /\ \A i \in issued : i < ev.id
    /\ \A r \in store : r.id < ev.id

\* C11 witness: an insert returns its id after an earlier insert committed,
\* while a further insert is in flight.
C11_Witness ==
  /\ ev.act = "add" /\ ev.id >= 2
  /\ issued # {}
  /\ \E i \in 1..Len(txq) : txq[i].op = "add"

\* C12: an observer that has subscribed is eventually called with the result
\* of a scan, without any insert or clear, unless that scan is rejected or
\* the observer unsubscribes; and what the subscribe scan delivers is the
\* whole store in scan order (the empty sequence for the empty store).
C12_SubscribeDelivers ==
  /\ \A l \in Listeners :
       (status[l] = "subscribed") ~>
         (got[l] # <<>> \/ l \in subFailed \/ status[l] = "unsubscribed")
  /\ [](ev.act = "scan" /\ ev.ctx = "subscribe" =>
          /\ Len(ev.invoked) = 1
          /\ got[ev.invoked[1]] = <<Ids(getAllLogs(store))>>)

\* C12 witness: the subscribe scan delivers a store of one record to an
\* observer that is still subscribed.
C12_Witness ==
  /\ ev.act = "scan" /\ ev.ctx = "subscribe"
  /\ Len(ev.invoked) = 1
  /\ status[ev.invoked[1]] = "subscribed"
  /\ Cardinality(store) = 1
  /\ Len(got[ev.invoked[1]][1]) = 1

\* C13: when the scan of a notifyListeners resolves, every listener registered
\* at that moment is called exactly once, with the sequence just scanned.
C13_NotifyReachesAll ==
  ev.act = "scan" /\ ev.ctx = "notifyListeners" =>
    \A l \in Range(listeners) :
      /\ Cardinality({i \in 1..Len(ev.invoked) : ev.invoked[i] = l}) = 1
      /\ got[l] = <<Ids(lastScan[1])>>

\* C14: a scan that resolves after a clear has resolved, with no insert
\* started or in flight since, resolves with the empty sequence.
C14_ClearThenScanEmpty ==
  ev.act = "scan" /\ cleared => lastScan = << <<>> >>

\* C15: a call of an intercepted channel calls the true original channel
\* with the call's own first argument before any saveLog of the call starts,
\* and every entry the call hands to addLogEntry has the level of the channel.
C15_ForwardThenPersist ==
  ev.act = "console" =>
    /\ ev.fw >= 1
    /\ \A i \in 1..Len(ev.fwv) : ev.fwv[i] = ev.arg
    /\ Len(ev.saved) >= 1
    /\ \A i \in 1..Len(ev.saved) :
         /\ ev.saved[i].after >= 1
         /\ ev.saved[i].entry.level = Level(ev.ch)

\* C15 witness: console.warn is called with an Error and its entry is queued
\* at level WARN.
C15_Witness ==
  /\ ev.act = "console" /\ ev.ch = "warn" /\ ev.arg.t = "Error"
  /\ ev.fwv = <<ev.arg>>
  /\ \E i \in 1..Len(waiting) : waiting[i].ctx = "saveLog" /\ waiting[i].entry.level = "WARN"

\* The message and the stack trace of the record of a primary value: the
\* message text and the stack of an error-like value, the string
\* representation and no stack trace of any other.
RecordMessage(v) == IF v.t = "Error" THEN v.s ELSE String(v)
RecordStack(v) == IF v.t = "Error" THEN v.stack ELSE Undefined

\* C16: on every channel, the entry of a captured call carries the message
\* text and the stack of an error-like first argument, and the string
\* representation and no stack trace of any other first argument.
C16_MessageConversion ==
  ev.act = "console" =>
    \A i \in 1..Len(ev.saved) :
      /\ ev.saved[i].entry.message = RecordMessage(ev.arg)
      /\ ev.saved[i].entry.stackTrace = RecordStack(ev.arg)

\* No store operation is pending and no capture is under way.
Quiescent ==
  /\ ~livelock
  /\ txq = <<>>
  /\ waiting = <<>>
  /\ committing = NoTx

\* C17: with the interception installed, after a console call the system
\* eventually becomes quiescent and stays so, with no pending store operation
\* and no further capture, even when every request of the store fails from
\* some moment on.
C17_EventuallyQuiescent == <>[]Quiescent


\* C18: a failed open is sticky.  Once the open has failed the connection is
\* absent, there has been one open, no operation is suspended or reaches the
\* engine (every call is rejected), and no step changes that or opens again.
C18_FailedOpenSticky ==
  /\ [](initPromise = "rejected" =>
          /\ ~dbInstance
          /\ opens = 1
          /\ txq = <<>> /\ waiting = <<>> /\ committing = NoTx)
  /\ [][initPromise = "rejected" =>
          /\ initPromise' = "rejected"
          /\ opens' = opens
          /\ (calls' < calls => ev'.refused # <<>>)]_vars

C18_Witness ==
  /\ initPromise = "rejected"
  /\ opens = 1
  /\ calls = 0
  /\ ev.refused = <<"clear">>
  /\ unhandled # {}


\* C19: observers converge on the store.  Whenever nothing is pending and
\* nothing has failed, the sequence last delivered to each subscribed observer
\* is the current result of a scan.
C19_ObserversConverge ==
  (Quiescent /\ faults = MaxFail /\ engine = "ok") =>
    \A l \in DOMAIN status :
      status[l] = "subscribed" => got[l] = <<Ids(getAllLogs(store))>>


\* C20: deliveries to one observer never go backwards.  No step hands an
\* observer a snapshot of an older version of the store than the one it was
\* handed last, whatever the order in which the subscribe scan and the
\* re-scans of the mutations end.
C20_NeverBackwards == [][\A l \in DOMAIN seen : seen[l] <= seen'[l]]_vars

\* A re-scan has ended and was delivered while the subscribe scan of the same
\* observer, begun beside it, is still running.
C20_Witness ==
  /\ ev.act = "scan"
  /\ ev.ctx = "notifyListeners"
  /\ version >= 1
  /\ \E i \in 1..Len(txq) :
       /\ txq[i].ctx = "subscribe"
       /\ txq[i].snap # <<>>
       /\ txq[i].lst \in Range(ev.invoked)
       /\ seen[txq[i].lst] = version


\* C21: observers are isolated from each other's failures.  When a callback
\* has thrown during a notification, every other registered observer has
\* still been called in that notification and holds its snapshot.
C21_FailureIsolation ==
  (/\ ev.act = "scan"
   /\ ev.ctx = "notifyListeners"
   /\ \E i \in 1..Len(ev.invoked) : ev.invoked[i] \in throws) =>
    \A l \in Range(listeners) \ throws :
      /\ l \in Range(ev.invoked)
      /\ got[l] = <<Ids(lastScan[1])>>

====
